---- MODULE Spec2Model ----
(***************************************************************************)
(* WiiM-Presto: the polling / redraw state machine of main.py (monitor)    *)
(* together with the TouchManager of touch_manager.py and the button       *)
(* registry of input_handler.py.                                           *)
(*                                                                         *)
(* Times are millisecond tick values (time.ticks_ms).  One main-loop cycle *)
(* of monitor() is one action: the loop body runs without suspension up to *)
(* its closing sleep, and the touch sampler task (_poll_loop) runs only    *)
(* while the main task is suspended in an await.                           *)
(***************************************************************************)
EXTENDS Integers, Sequences, FiniteSets, TLC

(* ---------------------------------------------------------------------- *)
(* Program constants                                                       *)
(* ---------------------------------------------------------------------- *)

\* touch_manager.py:31  self.button_timeout_ms = 10000
button_timeout_ms == 10000
\* config.py:35-37
POLL_INTERVAL_SLOW_MS == 10000
POLL_INTERVAL_FAST_MS == 1000
TRACK_END_THRESHOLD_S == 5
\* main.py:298,300,304: poll intervals chosen in the loop
POLL_CLOCK_BUTTONS_MS == 1000
POLL_CLOCK_IDLE_MS == 5000
POLL_PLAYING_BUTTONS_MS == 2000
\* main.py:317 / 326: failure threshold and back-off
STATUS_FAILURE_LIMIT == 8
BACKOFF_STEP_MS == 3000
BACKOFF_CAP_MS == 15000
\* main.py:388: album-art retry budget
ART_RETRY_LIMIT == 3
\* main.py:124, 146: WiFi health check
WIFI_CHECK_INTERVAL_MS == 5000
WIFI_FAIL_RESET == 24
\* main.py:112
PRESET_REFRESH_INTERVAL_MS == 1800000

\* main.py:76-77
STATE_CLOCK == "clock"
STATE_PLAYING == "playing"
\* Python's None
None == "None"

(* ---------------------------------------------------------------------- *)
(* Bounds of the model                                                     *)
(* ---------------------------------------------------------------------- *)

\* the tick counter is followed up to MaxTime milliseconds; an outage (a
\* run of failed fetches with its back-off) up to MaxOutageTime
MaxTime == 25000
MaxOutageTime == 110000
\* touched runs / deliveries counted by the observer of the touch hand-off
MaxRuns == 3
\* album-art failures counted in a row
MaxArtFailures == 4
\* the ticks followed when the periodic preset refresh is looked at
MaxPresetTime == 1800000
\* the ticks followed when the WiFi link is lost: 24 failed reconnects and
\* two more health checks
MaxWifiTime == 130000

(* ---------------------------------------------------------------------- *)
(* Button registry (input_handler.py)                                      *)
(* ---------------------------------------------------------------------- *)

BUTTON_Y == 390
BUTTON_WIDTH == 100
BUTTON_HEIGHT == 60
PRESET_BUTTON_START_Y == 20
PRESET_BUTTON_HEIGHT == 70
PRESET_BUTTON_GAP == 12
PRESET_BUTTON_MARGIN_X == 20

\* Button(x, y, w, h).bounds
Button(x, y, w, h) == <<x, y, w, h>>
prev_button == Button(60, BUTTON_Y, BUTTON_WIDTH, BUTTON_HEIGHT)
pause_button == Button(190, BUTTON_Y, BUTTON_WIDTH, BUTTON_HEIGHT)
next_button == Button(320, BUTTON_Y, BUTTON_WIDTH, BUTTON_HEIGHT)
resume_button == Button(140, 400, 200, 70)

\* TouchManager.is_touch_in_button
is_touch_in_button(x, y, button) ==
    LET bx == button[1]
        by == button[2]
        bw == button[3]
        bh == button[4]
    IN  (bx <= x /\ x < bx + bw) /\ (by <= y /\ y < by + bh)

\* a rebuild that records the number of the last configured slot without
\* its touch area
RECURSIVE rebuild_from_partial(_, _, _, _, _, _)
rebuild_from_partial(labels, button_width, wiim_num, y, buttons, numbers) ==
    IF wiim_num > Len(labels) THEN [buttons |-> buttons, numbers |-> numbers]
    ELSE IF labels[wiim_num]
    THEN rebuild_from_partial(labels, button_width, wiim_num + 1,
                      y + PRESET_BUTTON_HEIGHT + PRESET_BUTTON_GAP,
                      IF \E k \in (wiim_num + 1)..Len(labels) : labels[k]
                      THEN Append(buttons, Button(PRESET_BUTTON_MARGIN_X, y,
                                                  button_width, PRESET_BUTTON_HEIGHT))
                      ELSE buttons,
                      Append(numbers, wiim_num))
    ELSE rebuild_from_partial(labels, button_width, wiim_num + 1, y, buttons, numbers)

\* input_handler.py:40-61 rebuild_preset_buttons: one button per non-None
\* label, stacked top-down; the WiiM slot number is stored alongside it.
\* labels[k] = TRUE stands for a non-None label of slot k.
RECURSIVE rebuild_from(_, _, _, _, _, _)
rebuild_from(labels, button_width, wiim_num, y, buttons, numbers) ==
    IF wiim_num > Len(labels) THEN [buttons |-> buttons, numbers |-> numbers]
    ELSE IF labels[wiim_num]
         THEN rebuild_from(labels, button_width, wiim_num + 1,
                  y + PRESET_BUTTON_HEIGHT + PRESET_BUTTON_GAP,
                  Append(buttons, Button(PRESET_BUTTON_MARGIN_X, y,
                                         button_width, PRESET_BUTTON_HEIGHT)),
                  Append(numbers, wiim_num))
         ELSE rebuild_from(labels, button_width, wiim_num + 1, y, buttons, numbers)

\* a rebuild that makes a touch area for every slot, labelled or not
rebuild_preset_buttons_all_slots(labels, button_width) ==
    [buttons |-> [k \in 1..Len(labels) |->
                    Button(PRESET_BUTTON_MARGIN_X,
                           PRESET_BUTTON_START_Y
                             + (k - 1) * (PRESET_BUTTON_HEIGHT + PRESET_BUTTON_GAP),
                           button_width, PRESET_BUTTON_HEIGHT)],
     numbers |-> [k \in 1..Len(labels) |-> k]]

rebuild_preset_buttons_partial(labels, button_width) ==
    rebuild_from_partial(labels, button_width, 1, PRESET_BUTTON_START_Y, <<>>, <<>>)

rebuild_preset_buttons(labels, button_width) ==
    rebuild_from(labels, button_width, 1, PRESET_BUTTON_START_Y, <<>>, <<>>)

\* width handed to rebuild_preset_buttons by its caller
PresetButtonWidth == 440

\* label lists the player can report at boot (main.py:559-566)
LabelLists == { <<TRUE, TRUE, TRUE, TRUE>>, <<FALSE, TRUE, FALSE, TRUE>> }

\* every list of four labels fetch_presets() can return
\* (wiim_client.py:140-182): each slot configured or absent
AllLabelLists == [1..4 -> BOOLEAN]

\* raw touch coordinates the panel reports: inside prev, inside pause (and
\* resume), inside next, inside the first and second preset rows, and a
\* point outside every region
TouchPoints == { <<110, 420>>, <<240, 420>>, <<370, 420>>,
                 <<30, 50>>, <<30, 130>>, <<5, 370>> }

(* ---------------------------------------------------------------------- *)
(* State                                                                   *)
(* ---------------------------------------------------------------------- *)

VARIABLES
    \* TouchManager fields (touch_manager.py:15-33)
    enabled, task, screen_touched, last_touch_x, last_touch_y,
    playback_buttons_visible, resume_button_visible,
    last_button_show_time, last_resume_button_show_time,
    \* input_handler globals (input_handler.py:36-37)
    preset_buttons, preset_button_numbers,
    \* locals of monitor() (main.py:92-110)
    screen_state, player_state, last_track_id, last_art_url, cached_art_url,
    art_fetch_failures, status_failures, last_buttons_visible, last_minute,
    last_weather_desc, last_status_fetch, last_wifi_check, wifi_fail_count,
    last_preset_fetch, backoff_ms,
    \* `now` of the cycle last started, whether that cycle ended in an await
    \* (so that the sampler task may run), and whether machine.reset() ran
    now, yielded, device,
    \* what the last step did: for a cycle the router's intent, the calls
    \* made in order and their results
    ev,
    \* what the screen shows: whether the last clock drawn had the preset
    \* buttons on it, and how many draws in a row of the track now current
    \* failed to show its art
    presets_drawn, art_attempts,
    \* whether the playback buttons are on the display
    buttons_drawn,
    \* the tick of the cycle that made the latest failed status fetch
    failed_at,
    \* observer of the touch hand-off: the previous raw sample, the number of
    \* touched runs sampled, the number of touched=True returns, the last
    \* TouchManager operation
    sample_touched, runs, deliveries, tm_op,
    \* observer of the panel: whether it was touched at the last sampler
    \* iteration (polled or not), whether a touch was made while the
    \* TouchManager was disabled, and the coordinates of the latest touched
    \* sample that was polled
    panel_touched, missed, sample_point,
    \* the number of asyncio.create_task calls made by enable()
    tasks_created

tmVars == <<enabled, task, screen_touched, last_touch_x, last_touch_y,
            playback_buttons_visible, resume_button_visible,
            last_button_show_time, last_resume_button_show_time>>
registryVars == <<preset_buttons, preset_button_numbers>>
loopVars == <<screen_state, player_state, last_track_id, last_art_url,
             cached_art_url, art_fetch_failures, status_failures,
             last_buttons_visible, last_minute, last_weather_desc,
             last_status_fetch, last_wifi_check, wifi_fail_count,
             last_preset_fetch, backoff_ms, now, yielded, device>>
shownVars == <<presets_drawn, art_attempts, buttons_drawn, failed_at>>
monVars == <<loopVars, ev, shownVars>>
obsVars == <<sample_touched, runs, deliveries, tm_op,
            panel_touched, missed, sample_point, tasks_created>>
vars == <<tmVars, registryVars, monVars, obsVars>>

\* time.ticks_ms() counts modulo a power of two that the interpreter fixes
\* (2^30 in MicroPython builds with 31-bit small integers)
TICKS_PERIOD == 1073741824
TICKS_HALF == TICKS_PERIOD \div 2

\* time.ticks_ms() when u milliseconds have been counted
ticks_ms(u) == u % TICKS_PERIOD

\* time.ticks_diff(a, b): the signed difference of two tick values, taken
\* modulo the period into -TICKS_HALF .. TICKS_HALF - 1
ticks_diff(a, b) == ((a - b + TICKS_HALF) % TICKS_PERIOD) - TICKS_HALF

(* ---------------------------------------------------------------------- *)
(* TouchManager (touch_manager.py)                                         *)
(* ---------------------------------------------------------------------- *)

\* TouchManager.__init__
TouchManagerInit ==
    /\ enabled = FALSE
    /\ task = None
    /\ tasks_created = 0
    /\ screen_touched = FALSE
    /\ last_touch_x = 0
    /\ last_touch_y = 0
    /\ playback_buttons_visible = FALSE
    /\ resume_button_visible = FALSE
    /\ last_button_show_time = 0
    /\ last_resume_button_show_time = 0

\* an enable that starts a polling task whenever it finds the manager
\* disabled
enable_respawning ==
    /\ enabled' = TRUE
    /\ task' = "poll_loop"
    /\ tasks_created' = IF ~enabled THEN tasks_created + 1 ELSE tasks_created

\* TouchManager.enable
enable ==
    /\ enabled' = TRUE
    /\ task' = IF ~enabled /\ task = None THEN "poll_loop" ELSE task
    /\ tasks_created' = IF ~enabled /\ task = None
                        THEN tasks_created + 1 ELSE tasks_created

\* TouchManager.disable
disable ==
    /\ enabled' = FALSE
    /\ UNCHANGED task

\* a sampler that polls the panel whether enabled or not
_poll_loop_always(touched, x, y) ==
    /\ task # None
    /\ IF touched
       THEN /\ screen_touched' = TRUE
            /\ last_touch_x' = x
            /\ last_touch_y' = y
       ELSE UNCHANGED <<screen_touched, last_touch_x, last_touch_y>>
    /\ UNCHANGED <<enabled, task, playback_buttons_visible, resume_button_visible,
                   last_button_show_time, last_resume_button_show_time>>

\* a sampler that is suspended between writing x and writing y
_poll_loop_torn(touched, x, y) ==
    /\ task # None
    /\ IF enabled /\ touched
       THEN /\ screen_touched' = TRUE
            /\ last_touch_x' = x
            /\ UNCHANGED last_touch_y
       ELSE UNCHANGED <<screen_touched, last_touch_x, last_touch_y>>
    /\ UNCHANGED <<enabled, task, playback_buttons_visible, resume_button_visible,
                   last_button_show_time, last_resume_button_show_time>>

\* a sampler that also marks the playback buttons hidden on a touch
_poll_loop_hiding(touched, x, y) ==
    /\ task # None
    /\ IF enabled /\ touched
       THEN /\ screen_touched' = TRUE
            /\ last_touch_x' = x
            /\ last_touch_y' = y
            /\ playback_buttons_visible' = FALSE
       ELSE UNCHANGED <<screen_touched, last_touch_x, last_touch_y,
                        playback_buttons_visible>>
    /\ UNCHANGED <<enabled, task, resume_button_visible,
                   last_button_show_time, last_resume_button_show_time>>

\* one iteration of TouchManager._poll_loop with the raw sample
\* (touched, x, y) read from presto.touch_a; it writes the touch-edge fields
\* and no other field of the TouchManager
_poll_loop(touched, x, y) ==
    /\ task # None
    /\ IF enabled /\ touched
       THEN /\ screen_touched' = TRUE
            /\ last_touch_x' = x
            /\ last_touch_y' = y
       ELSE UNCHANGED <<screen_touched, last_touch_x, last_touch_y>>
    /\ UNCHANGED <<enabled, task, playback_buttons_visible, resume_button_visible,
                   last_button_show_time, last_resume_button_show_time>>

\* The sequential code of the main task is written over a record s holding
\* the TouchManager fields and monitor()'s locals; a step maps s to the
\* record after the step.

\* TouchManager.was_touched: the returned tuple (the flag is cleared by
\* consume)
was_touched(s) ==
    IF s.screen_touched THEN <<TRUE, s.last_touch_x, s.last_touch_y>>
    ELSE <<FALSE, 0, 0>>

consume(s) == [s EXCEPT !.screen_touched = FALSE]

\* the value a router call returns, kept in s.touch_action / s.preset_num
returns(s, action, num) == [s EXCEPT !.touch_action = action, !.preset_num = num]

\* a router that times the playback buttons out at elapsed >= timeout and
\* otherwise behaves as handle_touch_on_playing_screen
handle_touch_on_playing_screen_inclusive(s, t) ==
    LET w == was_touched(s)
        touched == w[1]
        x == w[2]
        y == w[3]
        c == consume(s)
        in_prev == is_touch_in_button(x, y, prev_button)
        in_pause == is_touch_in_button(x, y, pause_button)
        in_next == is_touch_in_button(x, y, next_button)
        hidden == [c EXCEPT !.playback_buttons_visible = FALSE]
    IN  IF ~touched
        THEN IF /\ s.playback_buttons_visible
                /\ ticks_diff(t, s.last_button_show_time) >= button_timeout_ms
             THEN returns(hidden, "hide_buttons", 0)
             ELSE returns(c, None, 0)
        ELSE IF s.playback_buttons_visible
             THEN IF in_prev THEN returns(hidden, "prev", 0)
                  ELSE IF in_pause THEN returns(hidden, "pause", 0)
                  ELSE IF in_next THEN returns(hidden, "next", 0)
                  ELSE returns(hidden, "hide_buttons", 0)
             ELSE returns([c EXCEPT !.playback_buttons_visible = TRUE,
                                    !.last_button_show_time = t],
                          "show_buttons", 0)

\* TouchManager.handle_touch_on_playing_screen, called at tick t
handle_touch_on_playing_screen(s, t) ==
    LET w == was_touched(s)
        touched == w[1]
        x == w[2]
        y == w[3]
        c == consume(s)
        in_prev == is_touch_in_button(x, y, prev_button)
        in_pause == is_touch_in_button(x, y, pause_button)
        in_next == is_touch_in_button(x, y, next_button)
        hidden == [c EXCEPT !.playback_buttons_visible = FALSE]
    IN  IF ~touched
        THEN IF /\ s.playback_buttons_visible
                /\ ticks_diff(t, s.last_button_show_time) > button_timeout_ms
             THEN returns(hidden, "hide_buttons", 0)
             ELSE returns(c, None, 0)
        ELSE IF s.playback_buttons_visible
             THEN IF in_prev THEN returns(hidden, "prev", 0)
                  ELSE IF in_pause THEN returns(hidden, "pause", 0)
                  ELSE IF in_next THEN returns(hidden, "next", 0)
                  ELSE returns(hidden, "hide_buttons", 0)
             ELSE returns([c EXCEPT !.playback_buttons_visible = TRUE,
                                    !.last_button_show_time = t],
                          "show_buttons", 0)

\* the loop of handle_touch_on_clock_screen over preset_buttons: i + 1 for
\* the first button holding (x, y), 0 for Python's None
RECURSIVE in_preset_from(_, _, _, _)
in_preset_from(buttons, i, x, y) ==
    IF i > Len(buttons) THEN 0
    ELSE IF is_touch_in_button(x, y, buttons[i]) THEN i
    ELSE in_preset_from(buttons, i + 1, x, y)

\* a clock router that hit-tests the preset buttons whether or not the
\* controls are shown
handle_touch_on_clock_screen_eager(s, t) ==
    LET w == was_touched(s)
        touched == w[1]
        x == w[2]
        y == w[3]
        c == consume(s)
        in_resume == is_touch_in_button(x, y, resume_button)
        in_preset == in_preset_from(s.preset_buttons, 1, x, y)
        hidden == [c EXCEPT !.resume_button_visible = FALSE]
    IN  IF ~touched
        THEN IF /\ s.resume_button_visible
                /\ ticks_diff(t, s.last_resume_button_show_time) > button_timeout_ms
             THEN returns(hidden, "hide_buttons", 0)
             ELSE returns(c, None, 0)
        ELSE IF in_preset # 0 THEN returns(hidden, "preset", in_preset)
        ELSE IF s.resume_button_visible
             THEN IF in_resume THEN returns(hidden, "resume", 0)
                  ELSE returns(c, "show_presets", 0)
             ELSE returns([c EXCEPT !.resume_button_visible = TRUE,
                                    !.last_resume_button_show_time = t],
                          "show_resume", 0)

\* TouchManager.handle_touch_on_clock_screen, called at tick t
handle_touch_on_clock_screen(s, t) ==
    LET w == was_touched(s)
        touched == w[1]
        x == w[2]
        y == w[3]
        c == consume(s)
        in_resume == is_touch_in_button(x, y, resume_button)
        in_preset == in_preset_from(s.preset_buttons, 1, x, y)
        hidden == [c EXCEPT !.resume_button_visible = FALSE]
    IN  IF ~touched
        THEN IF /\ s.resume_button_visible
                /\ ticks_diff(t, s.last_resume_button_show_time) > button_timeout_ms
             THEN returns(hidden, "hide_buttons", 0)
             ELSE returns(c, None, 0)
        ELSE IF s.resume_button_visible
             THEN IF in_resume THEN returns(hidden, "resume", 0)
                  ELSE IF in_preset # 0 THEN returns(hidden, "preset", in_preset)
                  ELSE returns(c, "show_presets", 0)
             ELSE returns([c EXCEPT !.resume_button_visible = TRUE,
                                    !.last_resume_button_show_time = t],
                          "show_resume", 0)

\* TouchManager.hide_playback_buttons / hide_resume_button / show_resume_button
hide_playback_buttons(s) == [s EXCEPT !.playback_buttons_visible = FALSE]
hide_resume_button(s) == [s EXCEPT !.resume_button_visible = FALSE]
show_resume_button(s, t) ==
    [s EXCEPT !.resume_button_visible = TRUE, !.last_resume_button_show_time = t]

(* ---------------------------------------------------------------------- *)
(* monitor() (main.py:83-447)                                              *)
(* ---------------------------------------------------------------------- *)

\* the record a cycle starts from at tick t: the fields and locals as they
\* stand, nothing routed, no call made yet
Start(t) ==
    [screen_touched |-> screen_touched,
     last_touch_x |-> last_touch_x,
     last_touch_y |-> last_touch_y,
     playback_buttons_visible |-> playback_buttons_visible,
     resume_button_visible |-> resume_button_visible,
     last_button_show_time |-> last_button_show_time,
     last_resume_button_show_time |-> last_resume_button_show_time,
     screen_state |-> screen_state,
     player_state |-> player_state,
     last_track_id |-> last_track_id,
     last_art_url |-> last_art_url,
     cached_art_url |-> cached_art_url,
     art_fetch_failures |-> art_fetch_failures,
     status_failures |-> status_failures,
     last_buttons_visible |-> last_buttons_visible,
     last_minute |-> last_minute,
     last_weather_desc |-> last_weather_desc,
     last_status_fetch |-> last_status_fetch,
     last_wifi_check |-> last_wifi_check,
     wifi_fail_count |-> wifi_fail_count,
     last_preset_fetch |-> last_preset_fetch,
     preset_buttons |-> preset_buttons,
     preset_button_numbers |-> preset_button_numbers,
     backoff_ms |-> backoff_ms,
     device |-> device,
     touch_action |-> "unrouted",
     preset_num |-> 0,
     ack |-> "none",
     fetch |-> "none",
     track |-> None,
     art |-> "none",
     position |-> <<0, 0>>,
     wifi |-> "unchecked",
     calls |-> <<>>,
     done |-> FALSE,
     yielded |-> FALSE]

\* a call of an external collaborator, recorded in order with the value
\* resume_button_visible has when it is made
call(s, fn, arg) ==
    [s EXCEPT !.calls = Append(@, [fn |-> fn, arg |-> arg,
                                   resume_button_visible |->
                                      s.resume_button_visible])]
\* `continue`
continue(s) == [s EXCEPT !.done = TRUE]
\* `await asyncio.sleep_ms(...)`: the sampler task may run
sleep_ms(s) == [s EXCEPT !.yielded = TRUE]

\* display_manager.set_preset_labels(labels): rebuilds the preset touch
\* areas for the labels
set_preset_labels(s, labels) ==
    LET r == rebuild_preset_buttons(labels, PresetButtonWidth)
    IN  [call(s, "set_preset_labels", labels)
         EXCEPT !.preset_buttons = r.buttons,
                !.preset_button_numbers = r.numbers]

\* main.py:167-171  is the periodic preset refresh due at tick t
preset_refresh_due(s, t) ==
    ticks_diff(t, s.last_preset_fetch) >= PRESET_REFRESH_INTERVAL_MS

\* main.py:167-171  the periodic preset refresh; presets is what
\* fetch_presets() returns
preset_refresh(s, t, presets) ==
    IF preset_refresh_due(s, t)
    THEN LET s1 == call([s EXCEPT !.last_preset_fetch = t], "fetch_presets", 0)
         IN  IF presets.ok THEN set_preset_labels(s1, presets.labels) ELSE s1
    ELSE s

\* a health check that keeps the failure count when it finds the link up
wifi_health_check_keeping_count(s, t, wifi) ==
    IF ticks_diff(t, s.last_wifi_check) >= WIFI_CHECK_INTERVAL_MS
    THEN LET s1 == [s EXCEPT !.last_wifi_check = t, !.wifi = wifi]
             s2 == call(call([s1 EXCEPT !.wifi_fail_count = @ + 1],
                             "show_loading_message", "WiFi Lost - Reconnecting..."),
                        "connect_wifi", 0)
         IN  IF wifi = "up" THEN s1
             ELSE IF wifi = "reconnected"
             THEN [s2 EXCEPT !.wifi_fail_count = 0,
                             !.screen_state = None,
                             !.last_status_fetch = 0]
             ELSE IF s2.wifi_fail_count >= WIFI_FAIL_RESET
             THEN continue([call(s2, "show_loading_message",
                                 "WiFi Failed - Restarting...")
                            EXCEPT !.device = "reset"])
             ELSE continue(s2)
    ELSE s

\* main.py:124-155  WiFi health check; wifi is what wlan.isconnected() and
\* connect_wifi() do: "up", "reconnected" or "failed"
wifi_health_check(s, t, wifi) ==
    IF ticks_diff(t, s.last_wifi_check) >= WIFI_CHECK_INTERVAL_MS
    THEN LET s1 == [s EXCEPT !.last_wifi_check = t, !.wifi = wifi]
             s2 == call(call([s1 EXCEPT !.wifi_fail_count = @ + 1],
                             "show_loading_message", "WiFi Lost - Reconnecting..."),
                        "connect_wifi", 0)
         IN  IF wifi = "up" THEN [s1 EXCEPT !.wifi_fail_count = 0]
             ELSE IF wifi = "reconnected"
             THEN [s2 EXCEPT !.wifi_fail_count = 0,
                             !.screen_state = None,
                             !.last_status_fetch = 0]
             ELSE IF s2.wifi_fail_count >= WIFI_FAIL_RESET
             THEN continue([call(s2, "show_loading_message",
                                 "WiFi Failed - Restarting...")
                            EXCEPT !.device = "reset"])
             ELSE continue(s2)
    ELSE s

\* a clock touch step that sends the command before it shows the loading
\* message
clock_touch_command_first(s0, t, ack) ==
    LET s == handle_touch_on_clock_screen(
               call(s0, "handle_touch_on_clock_screen", 0), t)
        a == s.touch_action
        paused == (s.player_state = "pause")
    IN  IF a = "show_resume"
        THEN continue([call(s, "draw_clock",
                            IF paused THEN <<TRUE, FALSE>> ELSE <<FALSE, TRUE>>)
                       EXCEPT !.last_status_fetch = t])
        ELSE IF a = "show_presets"
        THEN continue([call(s, "draw_clock", <<paused, TRUE>>)
                       EXCEPT !.last_status_fetch = t])
        ELSE IF a = "hide_buttons"
        THEN continue([call(s, "draw_clock", <<FALSE, FALSE>>)
                       EXCEPT !.last_status_fetch = t])
        ELSE IF a = "resume" /\ paused
        THEN LET s1 == call(call(s, "resume_playback", 0),
                            "show_loading_message", "Resuming...")
             IN  IF ack
                 THEN continue(sleep_ms(
                        [call(hide_resume_button(s1),
                              "show_loading_message", "Starting...")
                         EXCEPT !.ack = "ok",
                                !.screen_state = None,
                                !.player_state = None,
                                !.last_status_fetch = 0]))
                 ELSE continue([s1 EXCEPT !.ack = "failed"])
        ELSE IF a = "preset"
        THEN LET s1 == call(call(s, "load_preset", s.preset_num),
                            "show_loading_message", "Loading preset...")
             IN  IF ack
                 THEN continue(sleep_ms(
                        [call(hide_resume_button(s1),
                              "show_loading_message", "Starting stream...")
                         EXCEPT !.ack = "ok",
                                !.screen_state = None,
                                !.player_state = None,
                                !.last_status_fetch = 0]))
                 ELSE continue([s1 EXCEPT !.ack = "failed"])
        ELSE s

\* main.py:179-235  touch handling on the Clock screen; ack is what the
\* command (resume_playback / load_preset) returns if one is sent
clock_touch(s0, t, ack) ==
    LET s == handle_touch_on_clock_screen(
               call(s0, "handle_touch_on_clock_screen", 0), t)
        a == s.touch_action
        paused == (s.player_state = "pause")
    IN  IF a = "show_resume"
        THEN continue([call(s, "draw_clock",
                            IF paused THEN <<TRUE, FALSE>> ELSE <<FALSE, TRUE>>)
                       EXCEPT !.last_status_fetch = t])
        ELSE IF a = "show_presets"
        THEN continue([call(s, "draw_clock", <<paused, TRUE>>)
                       EXCEPT !.last_status_fetch = t])
        ELSE IF a = "hide_buttons"
        THEN continue([call(s, "draw_clock", <<FALSE, FALSE>>)
                       EXCEPT !.last_status_fetch = t])
        ELSE IF a = "resume" /\ paused
        THEN LET s1 == call(call(s, "show_loading_message", "Resuming..."),
                            "resume_playback", 0)
             IN  IF ack
                 THEN continue(sleep_ms(
                        [call(hide_resume_button(s1),
                              "show_loading_message", "Starting...")
                         EXCEPT !.ack = "ok",
                                !.screen_state = None,
                                !.player_state = None,
                                !.last_status_fetch = 0]))
                 ELSE continue([s1 EXCEPT !.ack = "failed"])
        ELSE IF a = "preset"
        THEN LET s1 == call(call(s, "show_loading_message", "Loading preset..."),
                            "load_preset", s.preset_num)
             IN  IF ack
                 THEN continue(sleep_ms(
                        [call(hide_resume_button(s1),
                              "show_loading_message", "Starting stream...")
                         EXCEPT !.ack = "ok",
                                !.screen_state = None,
                                !.player_state = None,
                                !.last_status_fetch = 0]))
                 ELSE continue([s1 EXCEPT !.ack = "failed"])
        ELSE s

\* main.py:237-287  touch handling on the Now Playing screen
playing_touch(s0, t, ack) ==
    LET s == handle_touch_on_playing_screen(
               call(s0, "handle_touch_on_playing_screen", 0), t)
        a == s.touch_action
    IN  IF a = "show_buttons"
        THEN continue([call(s, "draw_playback_buttons", 0)
                       EXCEPT !.last_status_fetch = t])
        ELSE IF a = "hide_buttons"
        THEN continue(sleep_ms([s EXCEPT !.last_status_fetch = 0]))
        ELSE IF a = "pause"
        THEN LET s1 == call(s, "pause_playback", 0)
             IN  IF ack
                 THEN continue(sleep_ms(
                        [call(show_resume_button(hide_playback_buttons(s1), t),
                              "draw_clock", <<TRUE, FALSE>>)
                         EXCEPT !.ack = "ok",
                                !.screen_state = STATE_CLOCK,
                                !.last_status_fetch = t]))
                 ELSE continue([s1 EXCEPT !.ack = "failed"])
        ELSE IF a = "next"
        THEN LET s1 == call(s, "next_track", 0)
             IN  IF ack
                 THEN continue(sleep_ms([s1 EXCEPT !.ack = "ok",
                                                   !.last_track_id = None,
                                                   !.last_status_fetch = 0]))
                 ELSE continue([s1 EXCEPT !.ack = "failed"])
        ELSE IF a = "prev"
        THEN LET s1 == call(s, "previous_track", 0)
             IN  IF ack
                 THEN continue(sleep_ms([s1 EXCEPT !.ack = "ok",
                                                   !.last_track_id = None,
                                                   !.last_status_fetch = 0]))
                 ELSE continue([s1 EXCEPT !.ack = "failed"])
        ELSE s

\* main.py:179-287  the router is called for the screen shown, if any
touch_step(s, t, ack) ==
    IF s.screen_state = STATE_CLOCK THEN clock_touch(s, t, ack)
    ELSE IF s.screen_state = STATE_PLAYING THEN playing_touch(s, t, ack)
    ELSE s

\* main.py:294-306  the poll interval for the screen and button visibility
poll_interval_ms(s) ==
    LET buttons_visible == IF s.screen_state = STATE_CLOCK
                           THEN s.resume_button_visible
                           ELSE s.playback_buttons_visible
    IN  IF s.screen_state = STATE_CLOCK
        THEN IF buttons_visible THEN POLL_CLOCK_BUTTONS_MS ELSE POLL_CLOCK_IDLE_MS
        ELSE IF buttons_visible THEN POLL_PLAYING_BUTTONS_MS ELSE POLL_INTERVAL_SLOW_MS

\* main.py:309  is a status fetch due at tick t
poll_due(s, t) == ticks_diff(t, s.last_status_fetch) >= poll_interval_ms(s)

\* the backoff without its cap
backoff_uncapped(failures) == BACKOFF_STEP_MS * failures

\* main.py:326  min(3000 * status_failures, 15000)
backoff(failures) ==
    IF BACKOFF_STEP_MS * failures < BACKOFF_CAP_MS
    THEN BACKOFF_STEP_MS * failures ELSE BACKOFF_CAP_MS

\* main.py:310-312  last_status_fetch = now; status = fetch_player_status()
fetched(s, t, kind) ==
    [call([s EXCEPT !.last_status_fetch = t], "fetch_player_status", 0)
     EXCEPT !.fetch = kind]

\* a failure handler that resets the counter at the limit but keeps the
\* screen
status_failed_keeping_screen(s, t) ==
    LET interval == poll_interval_ms(s)
        s1 == [fetched(s, t, "fail") EXCEPT !.status_failures = @ + 1]
    IN  continue(sleep_ms(
          IF s1.status_failures >= STATUS_FAILURE_LIMIT
          THEN [s1 EXCEPT !.status_failures = 0]
          ELSE [s1 EXCEPT !.backoff_ms = backoff(s1.status_failures),
                          !.last_status_fetch =
                             t - interval + backoff(s1.status_failures)]))

\* a failure handler that falls back to the clock at the first failure
status_failed_redrawing(s, t) ==
    LET interval == poll_interval_ms(s)
        s1 == [fetched(s, t, "fail") EXCEPT !.status_failures = @ + 1]
        lost == IF s1.screen_state # STATE_CLOCK
                THEN [call(s1, "draw_clock", <<FALSE, FALSE>>)
                      EXCEPT !.screen_state = STATE_CLOCK]
                ELSE s1
    IN  continue(sleep_ms(
          IF s1.status_failures >= STATUS_FAILURE_LIMIT
          THEN [lost EXCEPT !.status_failures = 0]
          ELSE [lost EXCEPT !.backoff_ms = backoff(s1.status_failures),
                            !.last_status_fetch =
                               t - interval + backoff(s1.status_failures)]))

\* a failure handler that gives up one failure later
status_failed_late_reset(s, t) ==
    LET interval == poll_interval_ms(s)
        s1 == [fetched(s, t, "fail") EXCEPT !.status_failures = @ + 1]
        lost == IF s1.screen_state # STATE_CLOCK
                THEN [call(s1, "draw_clock", <<FALSE, FALSE>>)
                      EXCEPT !.screen_state = STATE_CLOCK]
                ELSE s1
    IN  continue(sleep_ms(
          IF s1.status_failures > STATUS_FAILURE_LIMIT
          THEN [lost EXCEPT !.status_failures = 0]
          ELSE [s1 EXCEPT !.backoff_ms = backoff(s1.status_failures),
                          !.last_status_fetch =
                             t - interval + backoff(s1.status_failures)]))

\* main.py:313-331  the fetch failed
status_failed(s, t) ==
    LET interval == poll_interval_ms(s)
        s1 == [fetched(s, t, "fail") EXCEPT !.status_failures = @ + 1]
        lost == IF s1.screen_state # STATE_CLOCK
                THEN [call(s1, "draw_clock", <<FALSE, FALSE>>)
                      EXCEPT !.screen_state = STATE_CLOCK]
                ELSE s1
    IN  continue(sleep_ms(
          IF s1.status_failures >= STATUS_FAILURE_LIMIT
          THEN [lost EXCEPT !.status_failures = 0]
          ELSE [s1 EXCEPT !.backoff_ms = backoff(s1.status_failures),
                          !.last_status_fetch =
                             t - interval + backoff(s1.status_failures)]))

\* a clock path that redraws on a new minute or weather only and leaves
\* screen_state as it is
status_not_playing_keeping_screen(s, t, status, current_minute, weather_desc) ==
    LET s1 == [fetched(s, t, status.status)
               EXCEPT !.status_failures = 0, !.player_state = status.status]
    IN  continue(sleep_ms(
          IF \/ current_minute # s1.last_minute
             \/ weather_desc # s1.last_weather_desc
          THEN [call(s1, "draw_clock", <<FALSE, FALSE>>)
                EXCEPT !.last_minute = current_minute,
                       !.last_weather_desc = weather_desc]
          ELSE s1))

\* main.py:333-370  the player is not playing: clock screen
status_not_playing(s, t, status, current_minute, weather_desc) ==
    LET s1 == [fetched(s, t, status.status)
               EXCEPT !.status_failures = 0, !.player_state = status.status]
        weather_changed == (weather_desc # s1.last_weather_desc)
    IN  continue(sleep_ms(
          IF \/ s1.screen_state # STATE_CLOCK
             \/ current_minute # s1.last_minute
             \/ weather_changed
          THEN [call(s1, "draw_clock", <<FALSE, FALSE>>)
                EXCEPT !.screen_state = STATE_CLOCK,
                       !.last_minute = current_minute,
                       !.last_weather_desc = weather_desc]
          ELSE s1))

\* a redraw decision that retries the art whatever the retry budget
needs_redraw_unbounded_retry(s, track_id, buttons_visible) ==
    LET track_changed == (track_id # s.last_track_id)
        returning_from_clock == (s.screen_state # STATE_PLAYING)
        art_needs_retry == (s.last_art_url = "False")
        buttons_changed == (buttons_visible # s.last_buttons_visible)
    IN  track_changed \/ returning_from_clock \/ art_needs_retry \/ buttons_changed

\* a redraw decision that ignores the button visibility
needs_redraw_ignoring_buttons(s, track_id, buttons_visible) ==
    LET track_changed == (track_id # s.last_track_id)
        returning_from_clock == (s.screen_state # STATE_PLAYING)
        art_needs_retry == (s.last_art_url = "False"
                            /\ s.art_fetch_failures < ART_RETRY_LIMIT)
    IN  track_changed \/ returning_from_clock \/ art_needs_retry

\* main.py:386-391  is a redraw of the track needed
needs_redraw(s, track_id, buttons_visible) ==
    LET track_changed == (track_id # s.last_track_id)
        returning_from_clock == (s.screen_state # STATE_PLAYING)
        art_needs_retry == (s.last_art_url = "False"
                            /\ s.art_fetch_failures < ART_RETRY_LIMIT)
        buttons_changed == (buttons_visible # s.last_buttons_visible)
    IN  track_changed \/ returning_from_clock \/ art_needs_retry \/ buttons_changed

\* a refetch of the metadata on every redraw
refetch_meta_always(s, track_id, meta) ==
    LET s1 == call(s, "fetch_meta_info", 0)
    IN  IF meta.ok THEN [s1 EXCEPT !.cached_art_url = meta.url] ELSE s1

\* main.py:398-405  refetch the album-art URL
refetch_meta(s, track_id, meta) ==
    IF \/ track_id # s.last_track_id
       \/ s.screen_state # STATE_PLAYING
       \/ s.cached_art_url = None
    THEN LET s1 == call(s, "fetch_meta_info", 0)
         IN  IF meta.ok THEN [s1 EXCEPT !.cached_art_url = meta.url] ELSE s1
    ELSE s

\* a redraw that leaves the art failure count as it is when the art shows
redraw_track_counting_on(s, track_id, buttons_visible, meta, art_displayed) ==
    LET s1 == refetch_meta(s, track_id, meta)
        s2 == [call(s1, "draw_track", <<s1.cached_art_url, buttons_visible>>)
               EXCEPT !.last_track_id = track_id,
                      !.last_buttons_visible = buttons_visible,
                      !.screen_state = STATE_PLAYING,
                      !.last_minute = -1]
    IN  IF s2.cached_art_url # None
        THEN [s2 EXCEPT !.last_art_url = IF art_displayed THEN "True" ELSE "False",
                        !.art_fetch_failures = IF art_displayed THEN @ ELSE @ + 1,
                        !.art = IF art_displayed THEN "displayed" ELSE "failed"]
        ELSE [s2 EXCEPT !.last_art_url = None, !.art_fetch_failures = 0,
                        !.art = "absent"]

\* main.py:407-432  draw the track and update the caches and counters
redraw_track(s, track_id, buttons_visible, meta, art_displayed) ==
    LET s1 == refetch_meta(s, track_id, meta)
        s2 == [call(s1, "draw_track", <<s1.cached_art_url, buttons_visible>>)
               EXCEPT !.last_track_id = track_id,
                      !.last_buttons_visible = buttons_visible,
                      !.screen_state = STATE_PLAYING,
                      !.last_minute = -1]
    IN  IF s2.cached_art_url # None
        THEN [s2 EXCEPT !.last_art_url = IF art_displayed THEN "True" ELSE "False",
                        !.art_fetch_failures = IF art_displayed THEN 0 ELSE @ + 1,
                        !.art = IF art_displayed THEN "displayed" ELSE "failed"]
        ELSE [s2 EXCEPT !.last_art_url = None, !.art_fetch_failures = 0,
                        !.art = "absent"]

\* no adjustment of the poll near the end of the track
near_track_end_ignored(s, t, interval, status) == s

\* main.py:434-444  poll sooner near the end of the track
near_track_end(s, t, interval, status) ==
    IF /\ status.totlen > 0
       /\ status.curpos >= 0
       /\ (status.totlen - status.curpos) \div 1000 <= TRACK_END_THRESHOLD_S
    THEN [s EXCEPT !.last_status_fetch = t - interval + POLL_INTERVAL_FAST_MS]
    ELSE s

\* main.py:333-447  the player is playing: now-playing screen
status_playing(s, t, status, meta, art_displayed) ==
    LET interval == poll_interval_ms(s)
        s1 == [fetched(s, t, "play")
               EXCEPT !.status_failures = 0, !.player_state = "play",
                      !.track = status.track,
                      !.position = <<status.totlen, status.curpos>>]
        track_id == status.track
        buttons_visible == s1.playback_buttons_visible
        s2 == IF needs_redraw(s1, track_id, buttons_visible)
              THEN redraw_track(s1, track_id, buttons_visible, meta, art_displayed)
              ELSE s1
    IN  sleep_ms(near_track_end(s2, t, interval, status))

(* ---------------------------------------------------------------------- *)
(* Environment                                                             *)
(* ---------------------------------------------------------------------- *)

Tracks == {"A", "B"}
\* (totlen, curpos) the player reports: absent, far from the end, near it
Positions == { <<0, 0>>, <<200000, 10000>>, <<200000, 197000>> }
\* fetch_player_status(): None / empty on failure, else the status record
StatusFailure ==
    [ok |-> FALSE, status |-> "stop", track |-> "A", totlen |-> 0, curpos |-> 0]
StatusNotPlaying(st) ==
    [ok |-> TRUE, status |-> st, track |-> "A", totlen |-> 0, curpos |-> 0]
StatusPlaying(tr, p) ==
    [ok |-> TRUE, status |-> "play", track |-> tr, totlen |-> p[1], curpos |-> p[2]]
\* the album-art URL the player holds for a track
ArtUrl(track) == IF track = "A" THEN "http://art/A" ELSE "http://art/B"
\* fetch_meta_info(): failure, no albumArtURI, or the track's URL
MetaResult(kind, track) ==
    [ok |-> (kind # "fail"), url |-> IF kind = "url" THEN ArtUrl(track) ELSE None]

\* fetch_presets(): None on error, else the list of the four labels (here
\* TRUE for a configured slot, FALSE for None)
PresetsFailure == [ok |-> FALSE, labels |-> <<>>]
PresetsResult(labels) == [ok |-> TRUE, labels |-> labels]

\* An environment E names what the collaborators may answer and when the
\* cycles run:
\*   deltas    time from one cycle start to the next (sleeps, blocking calls)
\*   wifi      outcomes of the WiFi health check
\*   statuses  results of fetch_player_status()
\*   metas     kinds of fetch_meta_info() results
\*   arts      results of draw_track() (art displayed or not)
\*   acks      results of a transport / preset command
\*   minutes, weathers   clock-screen content
\*   presets   results of fetch_presets()
\*   points    raw touch coordinates; touches: whether the panel is touched
\*   rebase    whether the tick counter is kept relative to the cycle start
\*   origin, horizon   the first and the last tick value followed

\* touches of every kind against a reachable player that plays one track,
\* pauses or stops, on a coarse time grid
EnvUI ==
    [horizon |-> MaxTime,
     deltas |-> {0, 5000},
     wifi |-> {"up"},
     statuses |-> {StatusNotPlaying("pause"), StatusNotPlaying("stop"),
                   StatusPlaying("A", <<200000, 10000>>)},
     metas |-> {"none"},
     arts |-> {FALSE},
     acks |-> BOOLEAN,
     minutes |-> {0},
     weathers |-> {""},
     presets |-> {PresetsFailure},
     points |-> TouchPoints,
     touches |-> BOOLEAN,
     rebase |-> FALSE,
     origin |-> 0]

(* ---------------------------------------------------------------------- *)
(* Actions                                                                 *)
(* ---------------------------------------------------------------------- *)

\* the cycle recorded in e called fn
Called(e, fn) == \E i \in 1..Len(e.calls) : e.calls[i].fn = fn

\* whether the screen shows the preset buttons after the calls of s, when it
\* did (before) or did not show them before: the last draw_clock decides,
\* and a drawn track has none
shows_presets(s, before) ==
    LET clocks == {i \in 1..Len(s.calls) : s.calls[i].fn = "draw_clock"}
        tracks == {i \in 1..Len(s.calls) : s.calls[i].fn = "draw_track"}
        last(S) == CHOOSE i \in S : \A j \in S : j <= i
    IN  IF clocks = {} /\ tracks = {} THEN before
        ELSE IF clocks = {} THEN FALSE
        ELSE IF tracks # {} /\ last(tracks) > last(clocks) THEN FALSE
        ELSE s.calls[last(clocks)].arg[2]

\* whether the display shows the playback buttons after the calls of s, when
\* it did (before) or did not show them before: draw_playback_buttons puts
\* them on, draw_track draws them as its buttons argument says, and the
\* clock and a loading message replace the screen
shows_buttons(s, before) ==
    LET draws == {i \in 1..Len(s.calls) :
                    s.calls[i].fn \in {"draw_playback_buttons", "draw_track",
                                       "draw_clock", "show_loading_message"}}
        last == CHOOSE i \in draws : \A j \in draws : j <= i
    IN  IF draws = {} THEN before
        ELSE IF s.calls[last].fn = "draw_playback_buttons" THEN TRUE
        ELSE IF s.calls[last].fn = "draw_track" THEN s.calls[last].arg[2]
        ELSE FALSE

\* the draws in a row of one track that failed to show its art, after the
\* cycle s that found track_before current and n such draws counted
failed_draws(s, track_before, n) ==
    IF ~Called(s, "draw_track") THEN n
    ELSE IF s.art # "failed" THEN 0
    ELSE IF s.track = track_before THEN n + 1
    ELSE 1

\* how far back a timestamp is told apart: beyond the button timeout, the
\* poll intervals and the WiFi check interval
StampWindow == 2 * button_timeout_ms

\* the timestamp kept at the end of a cycle started at tick t.  The code
\* reads a timestamp only as ticks_diff(now, stamp) against an interval, so
\* an environment that rebases keeps the tick counter where it was and moves
\* the stamp back by the time passed, no further than the window (the
\* preset refresh, whose interval lies beyond the window, then never falls
\* due); the others keep the stamp as written.
kept(stamp, t, E, window) ==
    IF E.rebase
    THEN now - (IF ticks_diff(t, stamp) > window
                THEN window ELSE ticks_diff(t, stamp))
    ELSE stamp

\* the ticks an environment follows: from its origin to its horizon
followed(t, E) ==
    /\ ticks_diff(t, E.origin) >= 0
    /\ ticks_diff(E.horizon, t) >= 0

\* the cycle ends: the record r the steps computed becomes the state
Commit(r, t, E) ==
    \E s \in {r} :
        /\ followed(t, E)
        /\ s.art_fetch_failures <= MaxArtFailures
        /\ now' = IF E.rebase THEN now ELSE t
        /\ screen_touched' = s.screen_touched
        /\ last_touch_x' = s.last_touch_x
        /\ last_touch_y' = s.last_touch_y
        /\ playback_buttons_visible' = s.playback_buttons_visible
        /\ resume_button_visible' = s.resume_button_visible
        /\ last_button_show_time' = kept(s.last_button_show_time, t, E, StampWindow)
        /\ last_resume_button_show_time' = kept(s.last_resume_button_show_time, t, E, StampWindow)
        /\ screen_state' = s.screen_state
        /\ player_state' = s.player_state
        /\ last_track_id' = s.last_track_id
        /\ last_art_url' = s.last_art_url
        /\ cached_art_url' = s.cached_art_url
        /\ art_fetch_failures' = s.art_fetch_failures
        /\ status_failures' = s.status_failures
        /\ last_buttons_visible' = s.last_buttons_visible
        /\ last_minute' = s.last_minute
        /\ last_weather_desc' = s.last_weather_desc
        /\ last_status_fetch' = kept(s.last_status_fetch, t, E, StampWindow)
        /\ last_wifi_check' = kept(s.last_wifi_check, t, E, StampWindow)
        /\ wifi_fail_count' = s.wifi_fail_count
        /\ backoff_ms' = s.backoff_ms
        /\ device' = s.device
        /\ yielded' = s.yielded
        /\ ev' = [step |-> "cycle", touch_action |-> s.touch_action, preset_num |-> s.preset_num,
                  ack |-> s.ack, fetch |-> s.fetch, track |-> s.track,
                  art |-> s.art, position |-> s.position,
                  wifi |-> s.wifi, calls |-> s.calls, done |-> s.done]
        /\ last_preset_fetch' = kept(s.last_preset_fetch, t, E, StampWindow)
        /\ preset_buttons' = s.preset_buttons
        /\ preset_button_numbers' = s.preset_button_numbers
        /\ presets_drawn' = shows_presets(s, presets_drawn)
        /\ art_attempts' = failed_draws(s, last_track_id, art_attempts)
        /\ buttons_drawn' = shows_buttons(s, buttons_drawn)
        /\ failed_at' = kept(IF s.fetch = "fail" THEN t ELSE failed_at,
                             t, E, StampWindow)
        /\ UNCHANGED <<enabled, task, obsVars>>

\* main.py:289-447  the periodic status fetch of a cycle whose touch step
\* did not `continue`
poll_step(s, t, E) ==
    IF ~poll_due(s, t) THEN Commit(sleep_ms(s), t, E)
    ELSE \E status \in E.statuses :
           IF ~status.ok THEN Commit(status_failed(s, t), t, E)
           ELSE IF status.status # "play"
           THEN \E current_minute \in E.minutes, weather_desc \in E.weathers :
                  Commit(status_not_playing(s, t, status, current_minute,
                                            weather_desc), t, E)
           ELSE \E kind \in E.metas, art_displayed \in E.arts :
                  Commit(status_playing(s, t, status,
                                        MetaResult(kind, status.track),
                                        art_displayed), t, E)

\* main.py:173-447  the cycle from the touch step on
touch_and_poll(s, t, E) ==
    \E ack \in (IF touch_step(s, t, TRUE).ack = "none" THEN {TRUE} ELSE E.acks) :
       \E s2 \in {touch_step(s, t, ack)} :
          IF s2.done THEN Commit(s2, t, E) ELSE poll_step(s2, t, E)

\* main.py:117-447  one cycle of the `while True` loop of monitor()
Cycle(E) ==
    /\ device = "running"
    /\ \E d \in E.deltas :
         LET t == ticks_ms(now + d)
             due == ticks_diff(t, last_wifi_check) >= WIFI_CHECK_INTERVAL_MS
         IN  \E wifi \in (IF due THEN E.wifi ELSE {"up"}) :
               \E s1 \in {wifi_health_check(Start(t), t, wifi)} :
                  IF s1.done THEN Commit(s1, t, E)
                  ELSE \E presets \in (IF preset_refresh_due(s1, t)
                                       THEN E.presets ELSE {PresetsFailure}) :
                         \E s2 \in {preset_refresh(s1, t, presets)} :
                            touch_and_poll(s2, t, E)

NoEvent ==
    [step |-> "init", touch_action |-> "unrouted", preset_num |-> 0,
     ack |-> "none", fetch |-> "none", track |-> None, art |-> "none",
     position |-> <<0, 0>>, wifi |-> "unchecked",
     calls |-> <<>>, done |-> FALSE]

\* the sampler task runs while the main task is suspended
Sampler(E) ==
    /\ yielded
    /\ \E touched \in E.touches :
         \E p \in (IF touched THEN E.points ELSE {<<0, 0>>}) :
            _poll_loop(touched, p[1], p[2])
    /\ ev' = [NoEvent EXCEPT !.step = "sampler"]
    /\ UNCHANGED <<registryVars, loopVars, shownVars, obsVars>>

\* main.py:88-110 and 559-566: state when the loop is entered, at tick t0
MonitorInitAt(t0) ==
    /\ \E labels \in LabelLists :
         LET r == rebuild_preset_buttons(labels, PresetButtonWidth)
         IN  preset_buttons = r.buttons /\ preset_button_numbers = r.numbers
    /\ screen_state = None
    /\ player_state = None
    /\ last_track_id = None
    /\ last_art_url = None
    /\ cached_art_url = None
    /\ art_fetch_failures = 0
    /\ status_failures = 0
    /\ last_buttons_visible = FALSE
    /\ last_minute = -1
    /\ last_weather_desc = ""
    /\ last_status_fetch = 0
    /\ last_wifi_check = 0
    /\ wifi_fail_count = 0
    /\ last_preset_fetch = 0
    /\ backoff_ms = 0
    /\ now = t0
    /\ yielded = FALSE
    /\ device = "running"
    /\ ev = NoEvent
    /\ presets_drawn = FALSE
    /\ art_attempts = 0
    /\ buttons_drawn = FALSE
    /\ failed_at = 0

MonitorInit == MonitorInitAt(0)

ObserverInit ==
    /\ sample_touched = FALSE
    /\ panel_touched = FALSE
    /\ missed = FALSE
    /\ sample_point = <<0, 0>>
    /\ runs = 0
    /\ deliveries = 0
    /\ tm_op = "init"

\* monitor() has built the TouchManager and called enable()
Init ==
    /\ enabled = TRUE
    /\ task = "poll_loop"
    /\ tasks_created = 1
    /\ screen_touched = FALSE
    /\ last_touch_x = 0
    /\ last_touch_y = 0
    /\ playback_buttons_visible = FALSE
    /\ resume_button_visible = FALSE
    /\ last_button_show_time = 0
    /\ last_resume_button_show_time = 0
    /\ MonitorInit
    /\ ObserverInit

Next == Cycle(EnvUI) \/ Sampler(EnvUI)

Spec == Init /\ [][Next]_vars

\* the redraw decision: two tracks, album art that may be absent or fail to
\* draw, a player that may pause, and touches outside the buttons
EnvRedraw ==
    [horizon |-> MaxTime,
     deltas |-> {0, 5000},
     wifi |-> {"up"},
     statuses |-> {StatusNotPlaying("pause"),
                   StatusPlaying("A", <<200000, 10000>>),
                   StatusPlaying("B", <<200000, 10000>>)},
     metas |-> {"fail", "none", "url"},
     arts |-> BOOLEAN,
     acks |-> BOOLEAN,
     minutes |-> {0},
     weathers |-> {""},
     presets |-> {PresetsFailure},
     points |-> { <<5, 370>> },
     touches |-> BOOLEAN,
     rebase |-> FALSE,
     origin |-> 0]

NextRedraw == Cycle(EnvRedraw) \/ Sampler(EnvRedraw)

SpecRedraw == Init /\ [][NextRedraw]_vars

\* an outage: the status fetch fails or reports one playing track, nobody
\* touches the panel, and the loop is followed through the whole back-off
EnvOutage ==
    [horizon |-> MaxOutageTime,
     deltas |-> {0, 5000},
     wifi |-> {"up"},
     statuses |-> {StatusFailure, StatusNotPlaying("pause"),
                   StatusPlaying("A", <<200000, 10000>>)},
     metas |-> {"none"},
     arts |-> {FALSE},
     acks |-> {TRUE},
     minutes |-> {0},
     weathers |-> {""},
     presets |-> {PresetsFailure},
     points |-> { <<5, 370>> },
     touches |-> {FALSE},
     rebase |-> FALSE,
     origin |-> 0]

NextOutage == Cycle(EnvOutage) \/ Sampler(EnvOutage)

SpecOutage == Init /\ [][NextOutage]_vars

\* the status poll: the fetch fails, or reports a pause or one track playing
\* far from or near its end with album art; touches outside the buttons
EnvPoll ==
    [horizon |-> MaxTime,
     deltas |-> {0, 5000},
     wifi |-> {"up"},
     statuses |-> {StatusFailure, StatusNotPlaying("pause"),
                   StatusPlaying("A", <<200000, 10000>>),
                   StatusPlaying("A", <<200000, 197000>>)},
     metas |-> {"url"},
     arts |-> {TRUE},
     acks |-> {TRUE},
     minutes |-> {0},
     weathers |-> {""},
     presets |-> {PresetsFailure},
     points |-> { <<5, 370>> },
     touches |-> BOOLEAN,
     rebase |-> FALSE,
     origin |-> 0]

NextPoll == Cycle(EnvPoll) \/ Sampler(EnvPoll)

SpecPoll == Init /\ [][NextPoll]_vars

\* album art: one or two tracks near their end (so that the status is
\* polled at every step of the time grid), metadata and art draws that may
\* fail, status fetches that may fail, and nobody touching the panel
EnvArt ==
    [horizon |-> MaxTime,
     deltas |-> {0, 5000},
     wifi |-> {"up"},
     statuses |-> {StatusFailure,
                   StatusPlaying("A", <<200000, 197000>>),
                   StatusPlaying("B", <<200000, 197000>>)},
     metas |-> {"fail", "url"},
     arts |-> BOOLEAN,
     acks |-> {TRUE},
     minutes |-> {0},
     weathers |-> {""},
     presets |-> {PresetsFailure},
     points |-> { <<5, 370>> },
     touches |-> {FALSE},
     rebase |-> FALSE,
     origin |-> 0]

NextArt == Cycle(EnvArt) \/ Sampler(EnvArt)

SpecArt == Init /\ [][NextArt]_vars

\* the preset refresh: a stopped player followed in two long strides up to
\* the first periodic refresh, which may fail or report either label list,
\* with touches on the preset rows and outside them
EnvPresets ==
    [horizon |-> MaxPresetTime,
     deltas |-> {0, 900000},
     wifi |-> {"up"},
     statuses |-> {StatusNotPlaying("stop")},
     metas |-> {"none"},
     arts |-> {FALSE},
     acks |-> BOOLEAN,
     minutes |-> {0},
     weathers |-> {""},
     presets |-> {PresetsFailure} \cup {PresetsResult(l) : l \in LabelLists},
     points |-> { <<30, 50>>, <<30, 130>>, <<30, 300>>, <<5, 370>> },
     touches |-> BOOLEAN,
     rebase |-> FALSE,
     origin |-> 0]

NextPresets == Cycle(EnvPresets) \/ Sampler(EnvPresets)

SpecPresets == Init /\ [][NextPresets]_vars

\* the preset registry: as EnvPresets, with a refresh that may report any
\* list of four labels and touches on each of the four rows
EnvRegistry ==
    [horizon |-> MaxPresetTime,
     deltas |-> {0, 900000},
     wifi |-> {"up"},
     statuses |-> {StatusNotPlaying("stop")},
     metas |-> {"none"},
     arts |-> {FALSE},
     acks |-> BOOLEAN,
     minutes |-> {0},
     weathers |-> {""},
     presets |-> {PresetsFailure} \cup {PresetsResult(l) : l \in AllLabelLists},
     points |-> { <<30, 50>>, <<30, 130>>, <<30, 210>>, <<30, 300>>, <<5, 370>> },
     touches |-> BOOLEAN,
     rebase |-> FALSE,
     origin |-> 0]

NextRegistry == Cycle(EnvRegistry) \/ Sampler(EnvRegistry)

SpecRegistry == Init /\ [][NextRegistry]_vars

\* the clock screen: a paused or stopped player, a minute that may change
\* between two polls, touches outside the buttons
EnvClock ==
    [horizon |-> MaxTime,
     deltas |-> {0, 5000},
     wifi |-> {"up"},
     statuses |-> {StatusNotPlaying("pause"), StatusNotPlaying("stop")},
     metas |-> {"none"},
     arts |-> {FALSE},
     acks |-> {TRUE},
     minutes |-> {0, 1},
     weathers |-> {""},
     presets |-> {PresetsFailure},
     points |-> { <<5, 370>> },
     touches |-> BOOLEAN,
     rebase |-> FALSE,
     origin |-> 0]

NextClock == Cycle(EnvClock) \/ Sampler(EnvClock)

SpecClock == Init /\ [][NextClock]_vars

\* a WiFi link that may be up, come back on reconnect or stay down at each
\* health check, under a stopped player and no touches, followed for as
\* long as 24 failed reconnects take
EnvWifi ==
    [horizon |-> MaxWifiTime,
     deltas |-> {0, 5000},
     wifi |-> {"up", "reconnected", "failed"},
     statuses |-> {StatusNotPlaying("stop")},
     metas |-> {"none"},
     arts |-> {FALSE},
     acks |-> {TRUE},
     minutes |-> {0},
     weathers |-> {""},
     presets |-> {PresetsFailure},
     points |-> { <<5, 370>> },
     touches |-> {FALSE},
     rebase |-> FALSE,
     origin |-> 0]

NextWifi == Cycle(EnvWifi) \/ Sampler(EnvWifi)

SpecWifi == Init /\ [][NextWifi]_vars

\* the loop followed without end: a player that plays one track or pauses,
\* touches outside the buttons, a cycle every 5 s, the tick counter kept
\* relative to the cycle start
EnvLive ==
    [horizon |-> StampWindow + 5000,
     deltas |-> {5000},
     wifi |-> {"up"},
     statuses |-> {StatusNotPlaying("pause"),
                   StatusPlaying("A", <<200000, 10000>>)},
     metas |-> {"none"},
     arts |-> {FALSE},
     acks |-> {TRUE},
     minutes |-> {0},
     weathers |-> {""},
     presets |-> {PresetsFailure},
     points |-> { <<5, 370>> },
     touches |-> BOOLEAN,
     rebase |-> TRUE,
     origin |-> 0]

\* the loop is entered when the tick counter has passed the window
InitLive ==
    /\ enabled = TRUE
    /\ task = "poll_loop"
    /\ tasks_created = 1
    /\ screen_touched = FALSE
    /\ last_touch_x = 0
    /\ last_touch_y = 0
    /\ playback_buttons_visible = FALSE
    /\ resume_button_visible = FALSE
    /\ last_button_show_time = 0
    /\ last_resume_button_show_time = 0
    /\ MonitorInitAt(StampWindow)
    /\ ObserverInit

NextLive == Cycle(EnvLive) \/ Sampler(EnvLive)

\* the main loop keeps cycling: `while True` with a sleep in every path
SpecLive == InitLive /\ [][NextLive]_vars /\ WF_vars(Cycle(EnvLive))

(* ---------------------------------------------------------------------- *)
(* The loop after a long uptime: the tick counter near half its period and *)
(* near its wrap                                                           *)
(* ---------------------------------------------------------------------- *)

\* how many ticks are followed from each origin
TickSpan == 20000

\* tick values the loop is followed from: early in the period, just before
\* half the period, and just before the counter wraps to 0
TickOrigins == {100000, TICKS_HALF - 10000, TICKS_PERIOD - 10000}

\* a reachable player that plays one track, touches outside the buttons
EnvTicks(t0) ==
    [horizon |-> ticks_ms(t0 + TickSpan),
     deltas |-> {0, 5000},
     wifi |-> {"up"},
     statuses |-> {StatusPlaying("A", <<200000, 10000>>)},
     metas |-> {"none"},
     arts |-> {FALSE},
     acks |-> {TRUE},
     minutes |-> {0},
     weathers |-> {""},
     presets |-> {PresetsFailure},
     points |-> { <<5, 370>> },
     touches |-> BOOLEAN,
     rebase |-> FALSE,
     origin |-> t0]

\* the loop has been running for a long time: at tick t0 it has just shown
\* the Clock screen for a stopped player (main.py:341-370) in a cycle that
\* also checked the WiFi link and refreshed the presets
InitTicks ==
    /\ enabled = TRUE
    /\ task = "poll_loop"
    /\ tasks_created = 1
    /\ screen_touched = FALSE
    /\ last_touch_x = 0
    /\ last_touch_y = 0
    /\ playback_buttons_visible = FALSE
    /\ resume_button_visible = FALSE
    /\ \E t0 \in TickOrigins :
         /\ now = t0
         /\ last_status_fetch = t0
         /\ last_wifi_check = t0
         /\ last_preset_fetch = t0
         /\ last_button_show_time = t0
         /\ last_resume_button_show_time = t0
         /\ failed_at = t0
    /\ \E labels \in LabelLists :
         LET r == rebuild_preset_buttons(labels, PresetButtonWidth)
         IN  preset_buttons = r.buttons /\ preset_button_numbers = r.numbers
    /\ screen_state = STATE_CLOCK
    /\ player_state = "stop"
    /\ last_track_id = None
    /\ last_art_url = None
    /\ cached_art_url = None
    /\ art_fetch_failures = 0
    /\ status_failures = 0
    /\ last_buttons_visible = FALSE
    /\ last_minute = 0
    /\ last_weather_desc = ""
    /\ wifi_fail_count = 0
    /\ backoff_ms = 0
    /\ yielded = FALSE
    /\ device = "running"
    /\ ev = NoEvent
    /\ presets_drawn = FALSE
    /\ art_attempts = 0
    /\ buttons_drawn = FALSE
    /\ ObserverInit

NextTicks ==
    \E t0 \in TickOrigins : Cycle(EnvTicks(t0)) \/ Sampler(EnvTicks(t0))

SpecTicks == InitTicks /\ [][NextTicks]_vars

(* ---------------------------------------------------------------------- *)
(* The TouchManager alone: any order of its operations                     *)
(* ---------------------------------------------------------------------- *)

InitTouch ==
    /\ TouchManagerInit
    /\ MonitorInit
    /\ ObserverInit

TouchEnable ==
    /\ enable
    /\ tm_op' = "enable"
    /\ UNCHANGED <<screen_touched, last_touch_x, last_touch_y,
                   playback_buttons_visible, resume_button_visible,
                   last_button_show_time, last_resume_button_show_time,
                   registryVars, monVars, sample_touched, runs, deliveries,
                   panel_touched, missed, sample_point>>

TouchDisable ==
    /\ disable
    /\ tm_op' = "disable"
    /\ UNCHANGED <<screen_touched, last_touch_x, last_touch_y,
                   playback_buttons_visible, resume_button_visible,
                   last_button_show_time, last_resume_button_show_time,
                   registryVars, monVars, sample_touched, runs, deliveries,
                   panel_touched, missed, sample_point,
                   tasks_created>>

\* one iteration of the sampler; a raw sample is taken only while enabled,
\* and a run is a maximal sequence of consecutive touched samples
TouchSample ==
    /\ \E touched \in BOOLEAN :
         \E p \in (IF touched THEN TouchPoints ELSE {<<0, 0>>}) :
            /\ _poll_loop(touched, p[1], p[2])
            /\ sample_touched' = IF enabled THEN touched ELSE sample_touched
            /\ panel_touched' = touched
            /\ missed' = (missed \/ (touched /\ ~enabled))
            /\ sample_point' = IF enabled /\ touched THEN p ELSE sample_point
            /\ runs' = IF enabled /\ touched /\ ~sample_touched
                       THEN runs + 1 ELSE runs
    /\ runs' <= MaxRuns
    /\ tm_op' = "sample"
    /\ UNCHANGED <<registryVars, monVars, deliveries, tasks_created>>

\* a call of was_touched() by the consumer
TouchConsume ==
    /\ screen_touched' = FALSE
    /\ deliveries' = IF was_touched(Start(now))[1] THEN deliveries + 1 ELSE deliveries
    /\ deliveries' <= MaxRuns
    /\ tm_op' = "was_touched"
    /\ UNCHANGED <<enabled, task, last_touch_x, last_touch_y,
                   playback_buttons_visible, resume_button_visible,
                   last_button_show_time, last_resume_button_show_time,
                   registryVars, monVars, sample_touched, runs,
                   panel_touched, missed, sample_point,
                   tasks_created>>

NextTouch == TouchEnable \/ TouchDisable \/ TouchSample \/ TouchConsume

SpecTouch == InitTouch /\ [][NextTouch]_vars

(* ---------------------------------------------------------------------- *)
(* Properties                                                              *)
(* ---------------------------------------------------------------------- *)

\* C1: for any interleaving of touch samples and was_touched() calls,
\* was_touched() returns touched=True exactly once per contiguous run of
\* touched samples: after any call, as many True returns have been made as
\* runs have been sampled.
C1_ExactlyOncePerRun ==
    tm_op = "was_touched" => deliveries = runs


\* C2: a cycle that starts with a pending touch processes the touch intent
\* and does not call fetch_player_status, whatever screen_state and
\* player_state are.  Stated for its observable half: no status fetch is
\* made in a cycle that starts with a pending touch.
C2_TouchPreemptsPoll ==
    [][(ev'.step = "cycle" /\ screen_touched) => ev'.fetch = "none"]_vars

\* C3 (as claimed): on a successful fetch reporting play, with the track
\* identity equal to last_track_id, the button visibility as last drawn and
\* the screen already Playing, draw_track is not called.
C3_NoRedrawUnchanged ==
    [][(/\ ev'.step = "cycle"
        /\ ev'.fetch = "play"
        /\ ev'.track = last_track_id
        /\ playback_buttons_visible = last_buttons_visible
        /\ screen_state = STATE_PLAYING)
         => ~Called(ev', "draw_track")]_vars

\* C3 (amended): the same, provided no album-art retry is pending (the last
\* art draw did not fail, or the retry budget is used up).
C3_NoRedrawUnchangedNoRetry ==
    [][(/\ ev'.step = "cycle"
        /\ ev'.fetch = "play"
        /\ ev'.track = last_track_id
        /\ playback_buttons_visible = last_buttons_visible
        /\ screen_state = STATE_PLAYING
        /\ ~(last_art_url = "False" /\ art_fetch_failures < ART_RETRY_LIMIT))
         => ~Called(ev', "draw_track")]_vars

\* a play fetch on the Playing screen that drew nothing
C3_Witness ==
    /\ ev.step = "cycle"
    /\ ev.fetch = "play"
    /\ screen_state = STATE_PLAYING
    /\ ~Called(ev, "draw_track")

\* C4: on a successful fetch reporting play, draw_track is called if and
\* only if the track identity changed, or the screen was not already
\* Playing, or the previous art draw failed and retry budget remains, or the
\* button visibility differs from the one last drawn.
C4_RedrawIff ==
    [][(ev'.step = "cycle" /\ ev'.fetch = "play")
         => (Called(ev', "draw_track")
               <=> \/ ev'.track # last_track_id
                   \/ screen_state # STATE_PLAYING
                   \/ (last_art_url = "False" /\ art_fetch_failures < ART_RETRY_LIMIT)
                   \/ playback_buttons_visible # last_buttons_visible)]_vars

\* track B drawn with the controls shown
C4_Witness ==
    /\ ev.step = "cycle"
    /\ ev.fetch = "play"
    /\ ev.track = "B"
    /\ Called(ev, "draw_track")
    /\ last_buttons_visible

\* the router polled with no touch pending while its controls are shown
\* emits hide_buttons in a step exactly when late(elapsed) holds
TimeoutRule(late(_)) ==
    (ev'.step = "cycle" /\ ev'.touch_action # "unrouted" /\ ~screen_touched)
         => /\ (screen_state = STATE_PLAYING /\ playback_buttons_visible)
                 => (ev'.touch_action = "hide_buttons"
                       <=> late(ticks_diff(now', last_button_show_time)))
            /\ (screen_state = STATE_CLOCK /\ resume_button_visible)
                 => (ev'.touch_action = "hide_buttons"
                       <=> late(ticks_diff(now', last_resume_button_show_time)))

AtOrAfterTimeout(elapsed) == elapsed >= button_timeout_ms
AfterTimeout(elapsed) == elapsed > button_timeout_ms

C6_ThresholdForcesClock ==
    [][(/\ ev'.step = "cycle"
        /\ ev'.fetch = "fail"
        /\ status_failures + 1 = STATUS_FAILURE_LIMIT)
         => (screen_state' = STATE_CLOCK /\ status_failures' = 0)]_vars

\* the eighth failure in a row drew the clock over another screen
C6_Witness ==
    /\ ev.step = "cycle"
    /\ ev.fetch = "fail"
    /\ status_failures = 0
    /\ screen_state = STATE_CLOCK
    /\ Called(ev, "draw_clock")

\* C7: for consecutive failure counts below the threshold the retry delay
\* computed by the loop never exceeds the cap (15000 ms) and is not smaller
\* than the delay computed for the previous count.
C7_BackoffMonotoneCapped ==
    [][(/\ ev'.step = "cycle"
        /\ ev'.fetch = "fail"
        /\ status_failures' = status_failures + 1)
         => /\ backoff_ms' <= BACKOFF_CAP_MS
            /\ (status_failures >= 1 => backoff_ms' >= backoff_ms)
            /\ last_status_fetch' = now' - poll_interval_ms(Start(now')) + backoff_ms']_vars

\* the cap in effect: the sixth failure in a row waits 15000, not 18000
C7_Witness ==
    /\ ev.step = "cycle"
    /\ ev.fetch = "fail"
    /\ status_failures = 6
    /\ backoff_ms = BACKOFF_CAP_MS

\* C8: a cycle in which a touch requests a command and the command returns
\* False leaves screen_state and the button-visibility flags as they were.
C8_FailedCommandNoOp ==
    [][(ev'.step = "cycle" /\ ev'.ack = "failed")
         => /\ screen_state' = screen_state
            /\ playback_buttons_visible' = playback_buttons_visible
            /\ resume_button_visible' = resume_button_visible]_vars

\* the PlayerClient command an action intent stands for
CommandOf(action) ==
    CASE action = "pause" -> "pause_playback"
      [] action = "next" -> "next_track"
      [] action = "prev" -> "previous_track"
      [] action = "resume" -> "resume_playback"
      [] action = "preset" -> "load_preset"
      [] OTHER -> None

\* C9: every action intent returned by the router (pause, next, prev,
\* resume, preset_N) has its PlayerClient command invoked in the same cycle.
C9_IntentInvokesCommand ==
    (ev.step = "cycle" /\ CommandOf(ev.touch_action) # None)
      => \E i \in 1..Len(ev.calls) :
            /\ ev.calls[i].fn = CommandOf(ev.touch_action)
            /\ (ev.touch_action = "preset" => ev.calls[i].arg = ev.preset_num)

\* C10: a control set's visibility flag is true if and only if less than the
\* timeout has elapsed since its show time and it has not been explicitly
\* hidden.  A flag that is true has not been hidden since it was shown, so
\* for a true flag the claim says that less than the timeout has elapsed.
C10_VisibleOnlyWithinTimeout ==
    /\ playback_buttons_visible
         => ticks_diff(now, last_button_show_time) < button_timeout_ms
    /\ resume_button_visible
         => ticks_diff(now, last_resume_button_show_time) < button_timeout_ms

\* the album-art URL handed to draw_track in the cycle recorded in e, None
\* when the cycle drew no track
DrawnArtUrl(e) ==
    IF \E i \in 1..Len(e.calls) : e.calls[i].fn = "draw_track"
    THEN LET i == CHOOSE j \in 1..Len(e.calls) : e.calls[j].fn = "draw_track"
         IN  e.calls[i].arg[1]
    ELSE None

\* C11: the cached album-art URL is valid for the current track only:
\* draw_track never receives an art URL that was fetched for a different
\* track, also when fetch_meta_info fails for the new track.
C11_ArtUrlOfCurrentTrack ==
    (ev.step = "cycle" /\ Called(ev, "draw_track"))
      => DrawnArtUrl(ev) \in {None, ArtUrl(ev.track)}

\* C12: immediately after the loop handles a successful status fetch,
\* screen_state is Playing if the reported status is play and Clock
\* otherwise.
C12_ScreenFollowsStatus ==
    /\ (ev.step = "cycle" /\ ev.fetch = "play") => screen_state = STATE_PLAYING
    /\ (ev.step = "cycle" /\ ev.fetch \in {"pause", "stop"})
         => screen_state = STATE_CLOCK

\* a fetch reporting pause took the screen from a played track to the clock
C12_Witness ==
    /\ ev.step = "cycle"
    /\ ev.fetch = "pause"
    /\ Called(ev, "draw_clock")
    /\ last_track_id = "A"
    /\ screen_state = STATE_CLOCK

\* C13: screen_state is always exactly one of Clock or Playing, and it is
\* Clock from session start until the first successful status fetch that
\* reports play (no track has been drawn until then).
C13_ScreenClockOrPlaying ==
    /\ screen_state \in {STATE_CLOCK, STATE_PLAYING}
    /\ last_track_id = None => screen_state = STATE_CLOCK

Commands ==
    {"pause_playback", "resume_playback", "next_track", "previous_track",
     "load_preset"}

\* C19: when a screen's controls are hidden, a touch anywhere on that screen
\* only shows them: the router marks them visible, records the show time and
\* returns a show intent, and the cycle issues no transport or preset
\* command, whatever the coordinates of the touch.
C19_HiddenTouchOnlyShows ==
    [][(ev'.step = "cycle" /\ ev'.touch_action # "unrouted" /\ screen_touched)
         => /\ (screen_state = STATE_PLAYING /\ ~playback_buttons_visible)
                 => /\ ev'.touch_action = "show_buttons"
                    /\ playback_buttons_visible'
                    /\ last_button_show_time' = now'
                    /\ \A c \in Commands : ~Called(ev', c)
            /\ (screen_state = STATE_CLOCK /\ ~resume_button_visible)
                 => /\ ev'.touch_action = "show_resume"
                    /\ resume_button_visible'
                    /\ last_resume_button_show_time' = now'
                    /\ \A c \in Commands : ~Called(ev', c)]_vars

\* a first touch that landed on a preset button and only showed the controls
C19_Witness ==
    /\ ev.step = "cycle"
    /\ ev.touch_action = "show_resume"
    /\ in_preset_from(preset_buttons, 1, last_touch_x, last_touch_y) # 0
    /\ resume_button_visible

\* C14: on a successful status fetch reporting a non-play state while
\* screen_state is already Clock, draw_clock is called only if the displayed
\* minute or the weather string changed since the last clock draw.  Here the
\* minute and the weather never change (one value each), and a screen_state
\* of Clock means that a clock has been drawn: no such fetch draws the clock.
C14_ClockRedrawOnlyOnChange ==
    [][(/\ ev'.step = "cycle"
        /\ ev'.fetch \in {"pause", "stop"}
        /\ screen_state = STATE_CLOCK)
         => ~Called(ev', "draw_clock")]_vars

\* C16: status_failures is 0 immediately after every successful
\* fetch_player_status, and art_fetch_failures is 0 immediately after every
\* draw_track that displayed the art.
C16_CountersResetOnSuccess ==
    /\ (ev.step = "cycle" /\ ev.fetch \in {"play", "pause", "stop"})
         => status_failures = 0
    /\ (ev.step = "cycle" /\ ev.art = "displayed") => art_fetch_failures = 0

\* an art retry (a redraw that fetched no metadata, with no button to
\* change) that displayed the art
C16_Witness ==
    /\ ev.step = "cycle"
    /\ ev.fetch = "play"
    /\ ev.art = "displayed"
    /\ ~Called(ev, "fetch_meta_info")
    /\ art_fetch_failures = 0
    /\ status_failures = 0

\* C17: for one track whose album art keeps failing, with button visibility
\* unchanged and the screen staying Playing, the loop makes 3 draw attempts
\* in total and then stops redrawing for that track: never a fourth failed
\* draw in a row of one track, and a fetch that finds the same track still on
\* the Playing screen, its art failed and fewer than 3 failed draws of it,
\* draws it again.
C17_ThreeAttemptsPerTrack ==
    [][(ev'.step = "cycle" /\ ev'.fetch = "play")
         => /\ art_attempts' <= ART_RETRY_LIMIT
            /\ (/\ ev'.track = last_track_id
                /\ screen_state = STATE_PLAYING
                /\ last_art_url = "False"
                /\ art_attempts < ART_RETRY_LIMIT)
                 => Called(ev', "draw_track")]_vars

\* whether (x, y) is outside every control region of the two screens
OutsideControls(x, y) ==
    /\ ~is_touch_in_button(x, y, prev_button)
    /\ ~is_touch_in_button(x, y, pause_button)
    /\ ~is_touch_in_button(x, y, next_button)
    /\ ~is_touch_in_button(x, y, resume_button)
    /\ in_preset_from(preset_buttons, 1, x, y) = 0

\* C20: with controls shown, a touch outside every control region hides the
\* controls and yields hide_buttons; on the Clock screen it may first
\* escalate once from resume-only to resume+presets, after which a further
\* outside touch hides the controls.
C20_OutsideTouchHides ==
    [][(/\ ev'.step = "cycle"
        /\ ev'.touch_action # "unrouted"
        /\ screen_touched
        /\ OutsideControls(last_touch_x, last_touch_y))
         => /\ (screen_state = STATE_PLAYING /\ playback_buttons_visible)
                 => (ev'.touch_action = "hide_buttons"
                       /\ ~playback_buttons_visible')
            /\ (screen_state = STATE_CLOCK /\ resume_button_visible)
                 => IF presets_drawn
                    THEN ev'.touch_action = "hide_buttons"
                           /\ ~resume_button_visible'
                    ELSE ev'.touch_action \in {"show_presets", "hide_buttons"}]_vars

\* the slots of a label list that are configured, in order
ConfiguredSlots(labels) == SelectSeq(<<1, 2, 3, 4>>, LAMBDA i : labels[i])

\* the complete set of touch areas for a label list: one row per configured
\* slot, stacked from the top
CompleteButtons(labels) ==
    [k \in 1..Len(ConfiguredSlots(labels)) |->
       Button(PRESET_BUTTON_MARGIN_X,
              PRESET_BUTTON_START_Y
                + (k - 1) * (PRESET_BUTTON_HEIGHT + PRESET_BUTTON_GAP),
              PresetButtonWidth, PRESET_BUTTON_HEIGHT)]

\* C18: any hit-test performed by handle_touch_on_clock_screen sees either
\* the complete preset-button set from before rebuild_preset_buttons or the
\* complete set after it, never a partially rebuilt one: the set a routed
\* clock touch was tested against is the complete set of one label list,
\* with its parallel list of preset numbers.
C18_HitTestSeesCompleteSet ==
    (/\ ev.step = "cycle"
     /\ ev.touch_action \in {"show_resume", "show_presets", "resume", "preset"})
      => \E labels \in LabelLists :
            /\ preset_buttons = CompleteButtons(labels)
            /\ preset_button_numbers = ConfiguredSlots(labels)

\* a preset row hit in the very cycle that rebuilt the set to two rows
C18_Witness ==
    /\ ev.step = "cycle"
    /\ Called(ev, "set_preset_labels")
    /\ ev.touch_action = "preset"
    /\ Len(preset_buttons) = 2


\* the functions that draw on the screen
DrawFunctions ==
    {"draw_clock", "draw_track", "draw_playback_buttons", "show_loading_message"}

\* C25: a cycle whose status fetch fails and leaves the failure count below
\* the threshold leaves screen_state, last_track_id, the art cache and the
\* button-visibility flags as they were and calls no draw function
C25_FailedFetchInvisible ==
    [][(ev'.step = "cycle" /\ ev'.fetch = "fail" /\ status_failures' # 0)
       => /\ UNCHANGED <<screen_state, last_track_id, last_art_url,
                         cached_art_url, playback_buttons_visible,
                         resume_button_visible>>
          /\ \A fn \in DrawFunctions : ~Called(ev', fn)]_vars

\* a fetch failed below the threshold on the Playing screen with the
\* buttons shown and the art cached
C25_Witness ==
    /\ ev.step = "cycle"
    /\ ev.fetch = "fail"
    /\ status_failures # 0
    /\ screen_state = STATE_PLAYING
    /\ playback_buttons_visible
    /\ cached_art_url # None


\* the reported position (totlen, curpos) leaves at most
\* TRACK_END_THRESHOLD_S whole seconds of the track
NearEnd(p) ==
    p[1] > 0 /\ p[2] >= 0 /\ (p[1] - p[2]) \div 1000 <= TRACK_END_THRESHOLD_S

\* the tick at which the next status fetch is due in the state after a step
NextFetchDue ==
    last_status_fetch' +
      poll_interval_ms([screen_state |-> screen_state',
                        resume_button_visible |-> resume_button_visible',
                        playback_buttons_visible |-> playback_buttons_visible'])

\* C24, for a fetch made while screen_state was already Playing: when the
\* status reports at most TRACK_END_THRESHOLD_S seconds remaining, the next
\* status fetch is due POLL_INTERVAL_FAST_MS after the start of the cycle
C24_NearEndPollsFastFromPlaying ==
    [][(/\ ev'.step = "cycle"
        /\ ev'.fetch = "play"
        /\ screen_state = STATE_PLAYING
        /\ NearEnd(ev'.position))
       => NextFetchDue = now' + POLL_INTERVAL_FAST_MS]_vars

\* C24: after a successful status fetch that shows the Playing screen and
\* reports at most TRACK_END_THRESHOLD_S seconds remaining, the next status
\* fetch is due POLL_INTERVAL_FAST_MS after the start of the cycle
C24_NearEndPollsFast ==
    [][(/\ ev'.step = "cycle"
        /\ ev'.fetch = "play"
        /\ NearEnd(ev'.position))
       => NextFetchDue = now' + POLL_INTERVAL_FAST_MS]_vars

\* a near-end status was fetched on the Playing screen and the next fetch
\* is due sooner than the slow interval after it
C24_Witness ==
    /\ ev.step = "cycle"
    /\ ev.fetch = "play"
    /\ NearEnd(ev.position)
    /\ ~Called(ev, "draw_track")
    /\ ~playback_buttons_visible
    /\ last_status_fetch = now - POLL_INTERVAL_SLOW_MS + POLL_INTERVAL_FAST_MS


\* C26: a step of the touch-sampling task leaves screen_state, the
\* button-visibility flags and the preset-button registry as they were and
\* calls no collaborator, so every draw is made by a main cycle
C26_SamplerWritesTouchOnly ==
    [][ev'.step = "sampler"
       => /\ UNCHANGED <<screen_state, playback_buttons_visible,
                         resume_button_visible, registryVars>>
          /\ ev'.calls = <<>>]_vars

\* the sampler recorded a touch while the playback buttons were shown
C26_Witness ==
    /\ ev.step = "sampler"
    /\ screen_touched
    /\ screen_state = STATE_PLAYING
    /\ playback_buttons_visible


\* C27: a sampler iteration made while the TouchManager is disabled leaves
\* the pending flag and the coordinates as they were, touched panel or not,
\* and the pending flag is raised only by an iteration that polls a touched
\* panel while enabled; so a touch that begins and ends while disabled is
\* never returned by was_touched(), then or after enable()
C27_DisabledTouchDropped ==
    [][/\ (tm_op' = "sample" /\ ~enabled)
          => UNCHANGED <<screen_touched, last_touch_x, last_touch_y>>
       /\ (screen_touched' /\ ~screen_touched)
          => (tm_op' = "sample" /\ enabled /\ panel_touched')]_vars

\* a touch was made and released while disabled, the TouchManager was
\* enabled again and was_touched() was called with nothing delivered
C27_Witness ==
    /\ missed
    /\ ~panel_touched
    /\ enabled
    /\ tm_op = "was_touched"
    /\ deliveries = 0

\* C28: whenever a touch is pending, so whenever was_touched() returns
\* touched=True, last_touch_x and last_touch_y are the coordinates of one
\* sample, the latest touched sample polled
C28_CoordinatesOfOneSample ==
    screen_touched => <<last_touch_x, last_touch_y>> = sample_point

\* a second touched sample at another place replaced the pending one
C28_Witness ==
    /\ screen_touched
    /\ tm_op = "sample"
    /\ runs >= 2
    /\ sample_point = <<30, 50>>


\* the labels handed to set_preset_labels in the cycle recorded in e
LabelsSet(e) ==
    e.calls[CHOOSE i \in 1..Len(e.calls) : e.calls[i].fn = "set_preset_labels"].arg

\* C29: after a rebuild for a label list the registry holds exactly one
\* touch area per configured slot (the areas are distinct, as many as there
\* are configured labels, none when no label is configured),
\* preset_buttons and preset_button_numbers have the same length, and
\* preset_button_numbers lists the 1-based numbers of the configured slots in
\* increasing order
C29_RegistryMatchesLabels ==
    (ev.step = "cycle" /\ Called(ev, "set_preset_labels"))
      => LET labels == LabelsSet(ev)
             n == Len(preset_buttons)
         IN  /\ n = Cardinality({i \in 1..4 : labels[i]})
             /\ Len(preset_button_numbers) = n
             /\ \A j, k \in 1..n : j # k => preset_buttons[j] # preset_buttons[k]
             /\ \A k \in 1..n : labels[preset_button_numbers[k]]
             /\ \A j, k \in 1..n :
                   j < k => preset_button_numbers[j] < preset_button_numbers[k]
             /\ preset_buttons = CompleteButtons(labels)

\* a rebuild for a list with an absent slot between configured ones
C29_Witness ==
    /\ ev.step = "cycle"
    /\ Called(ev, "set_preset_labels")
    /\ LabelsSet(ev) = <<TRUE, FALSE, TRUE, FALSE>>
    /\ preset_button_numbers = <<1, 3>>

\* C30: a touch inside an active preset button makes the main loop call
\* load_preset with the slot number stored for that button in
\* preset_button_numbers
C30_LoadsStoredSlot ==
    (ev.step = "cycle" /\ Called(ev, "load_preset"))
      => \E k \in 1..Len(preset_buttons) :
            /\ is_touch_in_button(last_touch_x, last_touch_y, preset_buttons[k])
            /\ \E i \in 1..Len(ev.calls) :
                  /\ ev.calls[i].fn = "load_preset"
                  /\ ev.calls[i].arg = preset_button_numbers[k]


\* C22: when a cycle invokes resume_playback or load_preset, the resume
\* button is already marked hidden at the call and show_loading_message was
\* called earlier in the cycle
C22_HiddenAndLoadingBeforeCommand ==
    \A i \in 1..Len(ev.calls) :
       ev.calls[i].fn \in {"resume_playback", "load_preset"}
         => /\ ~ev.calls[i].resume_button_visible
            /\ \E j \in 1..(i - 1) : ev.calls[j].fn = "show_loading_message"

\* a resume intent was handled and the command failed
C22_Witness ==
    /\ ev.step = "cycle"
    /\ ev.touch_action = "resume"
    /\ Called(ev, "resume_playback")
    /\ ev.ack = "failed"


\* the slow network calls of a cycle and the touch routers
SlowCalls == {"connect_wifi", "fetch_presets", "fetch_player_status"}
Routers == {"handle_touch_on_clock_screen", "handle_touch_on_playing_screen"}

\* C23: in a cycle that routes a touch, the router is called before every
\* slow network call the cycle makes (WiFi reconnect, preset refresh, status
\* fetch)
C23_RoutingBeforeSlowCalls ==
    \A i, j \in 1..Len(ev.calls) :
       (ev.calls[i].fn \in SlowCalls /\ ev.calls[j].fn \in Routers) => j < i


\* C21: if controls are shown and no further touch occurs, they are
\* eventually hidden, on every execution in which the main loop keeps
\* cycling: a flag that is set leads to the flag cleared or to a new touch
C21_ShownEventuallyHidden ==
    /\ playback_buttons_visible ~> (~playback_buttons_visible \/ screen_touched)
    /\ resume_button_visible ~> (~resume_button_visible \/ screen_touched)


\* C39: at the start of every cycle 0 <= status_failures <= 7: the counter
\* of consecutive failures never carries 8 or more from one cycle to the next
C39_FailuresBelowLimit ==
    0 <= status_failures /\ status_failures <= STATUS_FAILURE_LIMIT - 1

\* seven failures in a row have been counted
C39_Witness ==
    /\ ev.step = "cycle"
    /\ ev.fetch = "fail"
    /\ status_failures = STATUS_FAILURE_LIMIT - 1

\* C36: only the current screen's controls are marked visible: on the Clock
\* screen playback_buttons_visible is false and on the Playing screen
\* resume_button_visible is false
C36_OnlyCurrentScreenControls ==
    /\ screen_state = STATE_CLOCK => ~playback_buttons_visible
    /\ screen_state = STATE_PLAYING => ~resume_button_visible


\* C40: for any sequence of enable() and disable() calls at most one
\* polling task is ever created; disable() leaves the task as it is and an
\* enable() that finds a task creates none
C40_OnePollingTask ==
    [][/\ tasks_created' <= 1
       /\ tm_op' = "disable" => UNCHANGED <<task, tasks_created>>
       /\ (tm_op' = "enable" /\ task # None) => UNCHANGED <<task, tasks_created>>]_vars

\* the manager was enabled, disabled (a touch went by unsampled) and
\* enabled again, with the one task
C40_Witness ==
    /\ tm_op = "enable"
    /\ enabled
    /\ missed
    /\ task = "poll_loop"
    /\ tasks_created = 1


\* C38: wifi_fail_count is 0 after every health check that finds the link up
\* and after every successful reconnect, a failed reconnect counts one more,
\* and the device is restarted exactly when a failed reconnect brings the
\* count to WIFI_FAIL_RESET
C38_WifiCountAndRestart ==
    [][ev'.step = "cycle"
       => /\ ev'.wifi \in {"up", "reconnected"} => wifi_fail_count' = 0
          /\ ev'.wifi = "failed" => wifi_fail_count' = wifi_fail_count + 1
          /\ device' = "reset"
                <=> (ev'.wifi = "failed" /\ wifi_fail_count' = WIFI_FAIL_RESET)
          /\ wifi_fail_count' <= WIFI_FAIL_RESET]_vars

\* the device was restarted after the 24th failed reconnect in a row
C38_Witness ==
    /\ device = "reset"
    /\ ev.wifi = "failed"
    /\ wifi_fail_count = WIFI_FAIL_RESET


\* C31: a preset intent is returned only when the preset buttons are
\* displayed on the Clock screen: the last clock draw before the cycle that
\* routes a touch to a preset had the preset buttons on it
C31_PresetOnlyWhenDisplayed ==
    [][(ev'.step = "cycle" /\ ev'.touch_action = "preset") => presets_drawn]_vars


\* C35: while resume_button_visible is true on the Clock screen the most
\* recent clock draw included controls: a cycle that ends on the Clock
\* screen with the flag set has not drawn the clock without controls last
C35_RedrawKeepsControls ==
    (ev.step = "cycle" /\ screen_state = STATE_CLOCK /\ resume_button_visible)
      => \A i \in 1..Len(ev.calls) :
            (/\ ev.calls[i].fn = "draw_clock"
             /\ \A j \in (i + 1)..Len(ev.calls) : ev.calls[j].fn # "draw_clock")
              => ev.calls[i].arg # <<FALSE, FALSE>>


\* C34: after any successful status fetch that reports play the playback
\* buttons on the display match playback_buttons_visible, also when the
\* buttons were shown and hidden between two polls
C34_DrawnButtonsMatchFlag ==
    [][(ev'.step = "cycle" /\ ev'.fetch = "play")
       => buttons_drawn' = playback_buttons_visible']_vars


\* C37: when the track identity changes the album-art retry budget starts
\* afresh: after the first draw of a new track whose art failed to show, one
\* failure is counted against the budget, whatever the previous track used
C37_BudgetFreshOnTrackChange ==
    [][(/\ ev'.step = "cycle"
        /\ ev'.fetch = "play"
        /\ ev'.track # last_track_id
        /\ ev'.art = "failed")
       => art_fetch_failures' = 1]_vars


\* C32: after the n-th consecutive failed status fetch (1 <= n < 8) no
\* status fetch is attempted until min(3000 * n, 15000) ms have passed since
\* it, whatever touches, button timeouts or poll-interval changes occur in
\* between
C32_BackoffRespected ==
    [][(ev'.step = "cycle" /\ ev'.fetch # "none" /\ status_failures >= 1)
       => ticks_diff(now', failed_at) >= backoff(status_failures)]_vars


\* the last cycle set last_status_fetch to 0 to force a refresh: hide_buttons
\* on the Playing screen, an acknowledged next / prev / resume / preset
\* command, or a WiFi reconnect
ForcedRefresh ==
    /\ ev.step = "cycle"
    /\ last_status_fetch = 0
    /\ \/ ev.touch_action = "hide_buttons" /\ screen_state = STATE_PLAYING
       \/ ev.touch_action \in {"next", "prev", "resume", "preset"} /\ ev.ack = "ok"
       \/ ev.wifi = "reconnected"

\* C33: when the loop has set last_status_fetch to 0 to force a refresh, the
\* next cycle that reaches the poll step performs a status fetch, for every
\* value of the wrapping millisecond tick counter
C33_ForcedRefreshFetches ==
    [][(ForcedRefresh /\ ev'.step = "cycle" /\ ~ev'.done)
       => ev'.fetch # "none"]_vars

\* C33 for the tick values from the slowest poll interval up to half the
\* period of the counter
C33_ForcedRefreshFetchesFirstHalf ==
    [][(ForcedRefresh /\ ev'.step = "cycle" /\ ~ev'.done
        /\ now' >= POLL_INTERVAL_SLOW_MS /\ now' < TICKS_HALF)
       => ev'.fetch # "none"]_vars

====
